---- MODULE Spec2Model ----
(***************************************************************************)
(* Model of chainit.klass.ChainIt (and its verbatim copy                   *)
(* chainiter.klass.ChainIter): a wrapper around a single-pass generator    *)
(* with lazy chainable operations and consuming terminal operations.       *)
(*                                                                         *)
(* A pipeline is a stack of instances.  Instance 1 is ChainIt(source);     *)
(* instance i+1 is the ChainIt returned by a chainable method called on    *)
(* instance i.  Each instance owns the generator `_iter` built by          *)
(* __init__, which pulls from the iterator object the method created       *)
(* (map, filter, islice, takewhile, zip, ...), which in turn pulls from    *)
(* the `_iter` of the instance below.                                      *)
(***************************************************************************)
EXTENDS Integers, Sequences, FiniteSets, TLC

\* ------------------------------------------------------------------ bounds
MaxLen == 2        \* longest finite source
MaxOther == 1      \* longest `other` operand of zip / zip_longest
MaxLayers == 2     \* chainable calls in one pipeline
MaxTake == 2       \* largest n given to take
MaxNth == 1        \* largest n given to nth
MaxPulls == 4      \* elements an endless source hands out before the run is cut

\* ------------------------------------------------------------------ values
\* Python's None.  Python ints are modelled by naturals, so no int equals it.
None == -1
\* the element values a source may hold: a falsy int, a truthy int, None
Scalars == {0, 1, None}

\* caller-supplied predicates, each given by the set of values it accepts
Preds == { {1},            \* lambda x: x == 1
           {0, None} }     \* lambda x: not x

\* caller-supplied mapping functions
Flip == [x \in Scalars |-> IF x = None THEN None ELSE 1 - x]
Lookup == [x \in Scalars |-> IF x = 0 THEN 1 ELSE None]   \* {0: 1}.get
MapFns == {Flip, Lookup}

\* caller-supplied functions returning an iterable, for flat_map
Twice == [x \in Scalars |-> <<x, x>>]
Truthy == [x \in Scalars |-> IF x = 1 THEN <<x>> ELSE <<>>]
FlatFns == {Twice, Truthy}

RECURSIVE SeqsUpTo(_, _)
SeqsUpTo(S, n) ==
  IF n = 0 THEN {<<>>}
  ELSE LET shorter == SeqsUpTo(S, n - 1) IN
       shorter \cup {Append(q, x) : q \in shorter, x \in S}

\* the iterables handed to ChainIt(...): finite lists, and endless cycles of a list
Sources ==
  {[elems |-> e, cyclic |-> FALSE] : e \in SeqsUpTo(Scalars, MaxLen)}
  \cup {[elems |-> e, cyclic |-> TRUE] : e \in {<<1, 0>>, <<0, 1, None>>}}
\* the `other` operands of zip and zip_longest: the lists [], [0], [0, 1], [0, 1, 0], ...
Others == {[k \in 1..n |-> (k - 1) % 2] : n \in 0..MaxOther}

VARIABLES
  src,    \* the iterable given to ChainIt(...)
  st,     \* the pipeline: source position and one record per instance
  ret,    \* the last call and what it returned or raised (history)
  used    \* whether a direct pull or terminal operation has been called (history)
vars == <<src, st, ret, used>>

\* ---------------------------------------------------------- iterator state
\* One instance: the iterator object its constructor wraps and its generator.
\*   op    the builtin the chainable method created ("iter" for ChainIt(source))
\*   arg   fn / n / other, as given to the method
\*   cnt   elements obtained from the instance below (enumerate's index,
\*         islice's cnt; for takewhile and zip a count kept for the analysis)
\*   stop  takewhile's stop flag; islice / chain / zip_longest dropped their input
\*   buf   chain.from_iterable: what is left of the active nested iterable
\*   opos  zip / zip_longest: elements taken from other
\*   ostop zip_longest dropped other
\*   done  the generator self._iter has finished
\*   tup   the elements this instance yields are tuples
Layer(op, arg, tup) ==
  [op |-> op, arg |-> arg, cnt |-> 0, stop |-> FALSE, buf |-> <<>>,
   opos |-> 0, ostop |-> FALSE, done |-> FALSE, tup |-> tup]

Yield(s, v) == [st |-> s, kind |-> "yield", val |-> v]
Stop(s) == [st |-> s, kind |-> "stop", val |-> None]
\* an endless source asked for more than MaxPulls elements: outside the model
Cap(s) == [st |-> s, kind |-> "cap", val |-> None]

\* ChainIt(iterable): wraps, pulls nothing
ChainIt == [pos |-> 0, lay |-> <<Layer("iter", None, FALSE)>>]

Top(s) == Len(s.lay)

\* next() on the iterator of the source iterable
src_next(s) ==
  IF src.cyclic
  THEN IF s.pos >= MaxPulls THEN Cap(s)
       ELSE Yield([s EXCEPT !.pos = @ + 1], src.elems[(s.pos % Len(src.elems)) + 1])
  ELSE IF s.pos < Len(src.elems)
       THEN Yield([s EXCEPT !.pos = @ + 1], src.elems[s.pos + 1])
       ELSE Stop(s)

RECURSIVE dunder_next(_, _)

\* builtin map(fn, self._iter)
map_next(s, i) ==
  LET r == dunder_next(s, i - 1) IN
  IF r.kind = "yield" THEN Yield(r.st, s.lay[i].arg[r.val]) ELSE r

\* builtin filter(fn, self._iter)
RECURSIVE filter_next(_, _)
filter_next(s, i) ==
  LET r == dunder_next(s, i - 1) IN
  IF r.kind # "yield" THEN r
  ELSE IF r.val \in s.lay[i].arg THEN r
  ELSE filter_next(r.st, i)

\* (result for elem in self._iter if (result := fn(elem)) is not None)
RECURSIVE filter_map_next(_, _)
filter_map_next(s, i) ==
  LET r == dunder_next(s, i - 1) IN
  IF r.kind # "yield" THEN r
  ELSE LET result == s.lay[i].arg[r.val] IN
       IF result # None THEN Yield(r.st, result)
       ELSE filter_map_next(r.st, i)

\* itertools.chain.from_iterable(map(fn, self._iter))
RECURSIVE flat_map_next(_, _)
flat_map_next(s, i) ==
  IF s.lay[i].stop THEN Stop(s)
  ELSE IF s.lay[i].buf # <<>>
  THEN Yield([s EXCEPT !.lay[i].buf = Tail(@)], Head(s.lay[i].buf))
  ELSE LET r == dunder_next(s, i - 1) IN
       IF r.kind = "cap" THEN r
       ELSE IF r.kind = "stop" THEN Stop([r.st EXCEPT !.lay[i].stop = TRUE])
       ELSE flat_map_next([r.st EXCEPT !.lay[i].buf = s.lay[i].arg[r.val]], i)

\* builtin enumerate(self)
enumerate_next(s, i) ==
  LET r == dunder_next(s, i - 1) IN
  IF r.kind # "yield" THEN r
  ELSE Yield([r.st EXCEPT !.lay[i].cnt = @ + 1], <<s.lay[i].cnt, r.val>>)

\* itertools.islice(self._iter, n), n >= 0
take_next(s, i) ==
  IF s.lay[i].stop THEN Stop(s)
  ELSE IF s.lay[i].cnt >= s.lay[i].arg THEN Stop([s EXCEPT !.lay[i].stop = TRUE])
  ELSE LET r == dunder_next(s, i - 1) IN
       IF r.kind = "cap" THEN r
       ELSE IF r.kind = "stop" THEN Stop([r.st EXCEPT !.lay[i].stop = TRUE])
       ELSE Yield([r.st EXCEPT !.lay[i].cnt = @ + 1], r.val)

\* the mutation of take_while_next that skips a failing element and goes on
RECURSIVE take_while_resuming(_, _)
take_while_resuming(s, i) ==
  LET r == dunder_next(s, i - 1) IN
  IF r.kind # "yield" THEN r
  ELSE LET t == [r.st EXCEPT !.lay[i].cnt = @ + 1] IN
       IF r.val \in s.lay[i].arg THEN Yield(t, r.val)
       ELSE take_while_resuming(t, i)

\* itertools.takewhile(fn, self._iter)
take_while_next(s, i) ==
  IF s.lay[i].stop THEN Stop(s)
  ELSE LET r == dunder_next(s, i - 1) IN
       IF r.kind # "yield" THEN r
       ELSE LET t == [r.st EXCEPT !.lay[i].cnt = @ + 1] IN
            IF r.val \in s.lay[i].arg THEN Yield(t, r.val)
            ELSE Stop([t EXCEPT !.lay[i].stop = TRUE])

\* next() on iter(other)
other_next(s, i) ==
  IF s.lay[i].opos < Len(s.lay[i].arg)
  THEN Yield([s EXCEPT !.lay[i].opos = @ + 1], s.lay[i].arg[s.lay[i].opos + 1])
  ELSE Stop(s)

\* the mutation of zip_next that asks other before the receiver
zip_next_other_first(s, i) ==
  LET b == other_next(s, i) IN
  IF b.kind # "yield" THEN b
  ELSE LET a == dunder_next(b.st, i - 1) IN
       IF a.kind # "yield" THEN a
       ELSE Yield([a.st EXCEPT !.lay[i].cnt = @ + 1], <<a.val, b.val>>)

\* builtin zip(iter(self), other): the receiver first, then other
zip_next(s, i) ==
  LET a == dunder_next(s, i - 1) IN
  IF a.kind # "yield" THEN a
  ELSE LET t == [a.st EXCEPT !.lay[i].cnt = @ + 1]
           b == other_next(t, i) IN
       IF b.kind # "yield" THEN b
       ELSE Yield(b.st, <<a.val, b.val>>)

\* the mutation of zip_longest_next that stops with the shorter side
zip_longest_shortest(s, i) ==
  LET a == dunder_next(s, i - 1) IN
  IF a.kind # "yield" THEN a
  ELSE LET t == [a.st EXCEPT !.lay[i].cnt = @ + 1]
           b == other_next(t, i) IN
       IF b.kind # "yield" THEN b
       ELSE Yield(b.st, <<a.val, b.val>>)

\* itertools.zip_longest(iter(self), other), fillvalue None
zip_longest_next(s, i) ==
  IF s.lay[i].stop /\ s.lay[i].ostop THEN Stop(s)
  ELSE
    LET a == IF s.lay[i].stop THEN Stop(s) ELSE dunder_next(s, i - 1)
        ta == IF a.kind = "yield" THEN [a.st EXCEPT !.lay[i].cnt = @ + 1]
              ELSE [a.st EXCEPT !.lay[i].stop = TRUE]
    IN
    IF a.kind = "cap" THEN a
    ELSE IF a.kind = "stop" /\ s.lay[i].ostop THEN Stop(ta)
    ELSE
      LET b == IF s.lay[i].ostop THEN Stop(ta) ELSE other_next(ta, i)
          tb == IF b.kind = "yield" THEN b.st
                ELSE [b.st EXCEPT !.lay[i].ostop = TRUE]
      IN
      IF b.kind = "stop" /\ ta.lay[i].stop THEN Stop(tb)
      ELSE Yield(tb, <<a.val, b.val>>)

\* next() on the iterator object instance i wraps
inner_next(s, i) ==
  CASE s.lay[i].op = "iter" -> src_next(s)
    [] s.lay[i].op = "map" -> map_next(s, i)
    [] s.lay[i].op = "filter" -> filter_next(s, i)
    [] s.lay[i].op = "filter_map" -> filter_map_next(s, i)
    [] s.lay[i].op = "flat_map" -> flat_map_next(s, i)
    [] s.lay[i].op = "enumerate" -> enumerate_next(s, i)
    [] s.lay[i].op = "take" -> take_next(s, i)
    [] s.lay[i].op = "take_while" -> take_while_next(s, i)
    [] s.lay[i].op = "zip" -> zip_next(s, i)
    [] s.lay[i].op = "zip_longest" -> zip_longest_next(s, i)

\* ChainIt.__next__: next(self._iter), self._iter = (x for x in iterable).
\* A generator that has finished stays finished and asks its input nothing.
dunder_next(s, i) ==
  IF s.lay[i].done THEN Stop(s)
  ELSE LET r == inner_next(s, i) IN
       IF r.kind = "stop" THEN Stop([r.st EXCEPT !.lay[i].done = TRUE]) ELSE r


\* ------------------------------------------------------ chainable methods
Chained(s, op, arg, tup) == [s EXCEPT !.lay = Append(@, Layer(op, arg, tup))]
TopTup(s) == s.lay[Top(s)].tup

map(s, fn) == Chained(s, "map", fn, FALSE)
filter(s, fn) == Chained(s, "filter", fn, FALSE)
filter_map(s, fn) == Chained(s, "filter_map", fn, FALSE)
flat_map(s, fn) == Chained(s, "flat_map", fn, FALSE)
enumerate(s) == Chained(s, "enumerate", None, TRUE)

\* the mutation of take that fetches the first element when it is called
take_eager(s, n) ==
  LET t == Chained(s, "take", n, TopTup(s)) IN dunder_next(t, Top(t)).st

take(s, n) == Chained(s, "take", n, TopTup(s))
take_while(s, fn) == Chained(s, "take_while", fn, FALSE)
zip(s, other) == Chained(s, "zip", other, TRUE)
zip_longest(s, other) == Chained(s, "zip_longest", other, TRUE)

\* ------------------------------------------------------- terminal methods
Value(s, v) == [st |-> s, kind |-> "value", exc |-> "", val |-> v, found |-> FALSE, calls |-> 0]
Raise(s, e) == [st |-> s, kind |-> "raise", exc |-> e, val |-> None, found |-> FALSE, calls |-> 0]
Hang(s) == [st |-> s, kind |-> "cap", exc |-> "", val |-> None, found |-> FALSE, calls |-> 0]

\* next(instance): ChainIt.__next__ called by the caller
pull(s, i) ==
  LET r == dunder_next(s, i) IN
  IF r.kind = "yield" THEN Value(r.st, r.val)
  ELSE IF r.kind = "stop" THEN Raise(r.st, "StopIteration")
  ELSE Hang(r.st)

\* iterating self._iter to its end, as tuple() does
RECURSIVE drain(_, _, _)
drain(s, i, acc) ==
  LET r == dunder_next(s, i) IN
  IF r.kind = "yield" THEN drain(r.st, i, Append(acc, r.val))
  ELSE IF r.kind = "stop" THEN Value(r.st, acc)
  ELSE [Hang(r.st) EXCEPT !.val = acc]

\* the mutation of collect that reads a copy and leaves the cursor where it was
collect_copy(s, i) == [drain(s, i, <<>>) EXCEPT !.st = s]

\* tuple(self._iter)
collect(s, i) == drain(s, i, <<>>)

\* the mutation of find that goes on to the end after a match
find_all(s, i, fn) ==
  LET d == drain(s, i, <<>>)
      hits == SelectSeq(d.val, LAMBDA x : x \in fn) IN
  IF d.kind = "cap" THEN d
  ELSE IF hits = <<>> THEN [d EXCEPT !.val = None]
  ELSE [d EXCEPT !.val = Head(hits), !.found = TRUE]

\* for elem in self._iter: if fn(elem): return elem / return None
RECURSIVE find(_, _, _)
find(s, i, fn) ==
  LET r == dunder_next(s, i) IN
  IF r.kind = "cap" THEN Hang(r.st)
  ELSE IF r.kind = "stop" THEN Value(r.st, None)
  ELSE IF r.val \in fn THEN [Value(r.st, r.val) EXCEPT !.found = TRUE]
  ELSE find(r.st, i, fn)

\* for idx, elem in enumerate(self._iter): if idx == n: return elem
RECURSIVE nth_loop(_, _, _, _)
nth_loop(s, i, n, idx) ==
  LET r == dunder_next(s, i) IN
  IF r.kind = "cap" THEN Hang(r.st)
  ELSE IF r.kind = "stop" THEN Value(r.st, None)
  ELSE IF idx = n THEN [Value(r.st, r.val) EXCEPT !.found = TRUE]
  ELSE nth_loop(r.st, i, n, idx + 1)

nth(s, i, n) == IF n < 0 THEN Value(s, None) ELSE nth_loop(s, i, n, 0)

\* functools.reduce's loop; acc is <<>> while no value is held yet,
\* <<v>> once one is.  fn is lambda a, b: (a, b).
RECURSIVE reduce_loop(_, _, _, _)
reduce_loop(s, i, acc, calls) ==
  LET r == dunder_next(s, i) IN
  IF r.kind = "cap" THEN Hang(r.st)
  ELSE IF r.kind = "stop"
  THEN IF acc = <<>>
       THEN [Raise(r.st, "TypeError") EXCEPT !.calls = calls]
       ELSE [Value(r.st, acc[1]) EXCEPT !.calls = calls]
  ELSE IF acc = <<>> THEN reduce_loop(r.st, i, <<r.val>>, calls)
  ELSE reduce_loop(r.st, i, << <<acc[1], r.val>> >>, calls + 1)

\* the mutation of reduce that starts from None, as fold would with that initializer
reduce_from_none(s, i) == reduce_loop(s, i, <<None>>, 0)

\* functools.reduce(fn, self._iter)
reduce(s, i) == reduce_loop(s, i, <<>>, 0)

\* functools.reduce(fn, self._iter, initializer)
fold(s, i, initializer) == reduce_loop(s, i, <<initializer>>, 0)


\* ----------------------------------------------------------------- actions
Instances == 1..(MaxLayers + 1)

\* the record of a call: the method, the instance it was called on, how many
\* instances the pipeline had then, whether that instance's generator had
\* already finished, and the outcome
Called(op, i, r) ==
  [op |-> op, inst |-> i, top |-> Top(st), drained |-> st.lay[i].done,
   kind |-> r.kind, exc |-> r.exc,
   val |-> r.val, found |-> r.found, calls |-> r.calls]

\* a chainable method called on the newest instance; it returns a new instance
Chain(op, t) ==
  /\ Top(st) <= MaxLayers
  /\ st' = t
  /\ ret' = [Called(op, Top(st), Value(t, None)) EXCEPT !.kind = "chain"]
  /\ UNCHANGED <<src, used>>

\* a direct pull or a terminal method called on instance i: the newest
\* instance, or the one it was chained from (which the caller should no longer
\* use); a call that never returns has no next state
Consume(op, i, r) ==
  /\ i <= Top(st)
  /\ i >= Top(st) - 1
  /\ r.kind # "cap"
  /\ st' = r.st
  /\ ret' = Called(op, i, r)
  /\ used' = TRUE
  /\ UNCHANGED src

CallMap == \E fn \in MapFns : ~TopTup(st) /\ Chain("map", map(st, fn))
CallFilter == \E fn \in Preds : ~TopTup(st) /\ Chain("filter", filter(st, fn))
CallFilterMap == \E fn \in MapFns : ~TopTup(st) /\ Chain("filter_map", filter_map(st, fn))
CallFlatMap == \E fn \in FlatFns : ~TopTup(st) /\ Chain("flat_map", flat_map(st, fn))
CallEnumerate == Chain("enumerate", enumerate(st))
CallTake == \E n \in 0..MaxTake : Chain("take", take(st, n))
\* itertools.islice rejects a negative stop: take raises and returns no instance
CallTakeNegative ==
  /\ Top(st) <= MaxLayers
  /\ ret' = Called("take", Top(st), Raise(st, "ValueError"))
  /\ UNCHANGED <<src, st, used>>
CallTakeWhile == \E fn \in Preds : ~TopTup(st) /\ Chain("take_while", take_while(st, fn))
CallZip == \E other \in Others : Chain("zip", zip(st, other))
CallZipLongest == \E other \in Others : Chain("zip_longest", zip_longest(st, other))

CallNext == \E i \in Instances : Consume("next", i, pull(st, i))
CallCollect == \E i \in Instances : Consume("collect", i, collect(st, i))
CallFind ==
  \E i \in Instances, fn \in Preds :
    /\ i <= Top(st)
    /\ ~st.lay[i].tup
    /\ Consume("find", i, find(st, i, fn))
CallNth == \E i \in Instances, n \in -1..MaxNth : Consume("nth", i, nth(st, i, n))
CallFold == \E i \in Instances : Consume("fold", i, fold(st, i, None))
CallReduce == \E i \in Instances : Consume("reduce", i, reduce(st, i))

Init ==
  /\ src \in Sources
  /\ st = ChainIt
  /\ ret = [op |-> "ChainIt", inst |-> 1, top |-> 1, drained |-> FALSE,
            kind |-> "chain", exc |-> "",
            val |-> None, found |-> FALSE, calls |-> 0]
  /\ used = FALSE

Next ==
  \/ CallMap
  \/ CallFilter
  \/ CallFilterMap
  \/ CallFlatMap
  \/ CallEnumerate
  \/ CallTake
  \/ CallTakeNegative
  \/ CallTakeWhile
  \/ CallZip
  \/ CallZipLongest
  \/ CallNext
  \/ CallCollect
  \/ CallFind
  \/ CallNth
  \/ CallFold
  \/ CallReduce

Spec == Init /\ [][Next]_vars


\* ------------------------------------------------------------- properties
Min(a, b) == IF a < b THEN a ELSE b
Max(a, b) == IF a > b THEN a ELSE b
Live(s) == 1..Top(s)
Consuming == {"next", "collect", "find", "nth", "fold", "reduce"}

\* what instance i would still yield if it were iterated to its end now
Rest(s, i) == drain(s, i, <<>>)
Finite(s, i) == Rest(s, i).kind = "value"

\* instance i has just been returned by its chainable method: nothing has
\* gone through it yet
Fresh(s, i) ==
  /\ s.lay[i].cnt = 0 /\ s.lay[i].opos = 0 /\ s.lay[i].buf = <<>>
  /\ ~s.lay[i].stop /\ ~s.lay[i].ostop /\ ~s.lay[i].done

RECURSIVE PrefixLen(_, _)
\* length of the longest prefix of q whose elements all lie in fn
PrefixLen(q, fn) ==
  IF q = <<>> \/ Head(q) \notin fn THEN 0 ELSE 1 + PrefixLen(Tail(q), fn)

\* C1: as long as only the constructor and chainable methods have been called,
\* nothing has been pulled: the source and every `other` stand at their first
\* element and no iterator or generator of the pipeline has moved.
C1_Lazy ==
  ~used =>
    /\ st.pos = 0
    /\ \A i \in Live(st) : Fresh(st, i)

\* a pipeline of MaxLayers chainable calls over a non-empty source, nothing
\* pulled yet, whose first pull does reach the source
C1_Witness ==
  /\ ~used
  /\ ret.kind = "chain"
  /\ Top(st) = MaxLayers + 1
  /\ Len(src.elems) > 0
  /\ \E i \in Live(st) : st.lay[i].op = "take"
  /\ \E i \in Live(st) : st.lay[i].op \in {"zip", "zip_longest"} /\ st.lay[i].arg # <<>>
  /\ pull(st, Top(st)).st.pos > 0

\* C2: the cursor only moves forward and hands out each source position once,
\* in order: a direct pull on ChainIt(source) returns the element at the
\* current position and advances by one, collect on it returns exactly the
\* elements from the current position on, no call moves the position back, and
\* after a terminal operation has drained an instance every later collect,
\* find, nth, fold and direct pull on it finds it empty and pulls nothing.
C2_SinglePass ==
  \A i \in Live(st) :
    LET d == collect(st, i) IN
    /\ pull(st, i).st.pos >= st.pos
    /\ d.st.pos >= st.pos
    /\ fold(st, i, None).kind = "value" => fold(st, i, None).st = d.st
    /\ \A n \in -1..MaxNth : nth(st, i, n).st.pos >= st.pos
    /\ (i = 1 /\ pull(st, 1).kind = "value") =>
         /\ pull(st, 1).val = src.elems[(st.pos % Len(src.elems)) + 1]
         /\ pull(st, 1).st.pos = st.pos + 1
    /\ (i = 1 /\ ~src.cyclic /\ ~st.lay[1].done) =>
         d.val = SubSeq(src.elems, st.pos + 1, Len(src.elems))
    /\ d.kind = "value" =>
         /\ collect(d.st, i).val = <<>>
         /\ collect(d.st, i).st = d.st
         /\ pull(d.st, i).kind = "raise"
         /\ fold(d.st, i, None).val = None
         /\ fold(d.st, i, None).calls = 0
         /\ fold(d.st, i, None).st = d.st
         /\ \A n \in -1..MaxNth :
              /\ ~nth(d.st, i, n).found
              /\ nth(d.st, i, n).val = None
              /\ nth(d.st, i, n).st = d.st
         /\ ~st.lay[i].tup =>
              \A fn \in Preds :
                /\ find(st, i, fn).st.pos >= st.pos
                /\ ~find(d.st, i, fn).found
                /\ find(d.st, i, fn).val = None
                /\ find(d.st, i, fn).st = d.st

\* a collect, find or nth called on ChainIt(source) after an earlier terminal
\* operation had drained it
C2_Witness ==
  /\ ret.op \in {"collect", "find", "nth"}
  /\ ret.inst = 1
  /\ ret.drained
  /\ ~src.cyclic
  /\ st.pos = Len(src.elems)
  /\ st.pos > 1
  /\ ret.val = IF ret.op = "collect" THEN <<>> ELSE None
  /\ ~ret.found


\* the part of C3 that concerns n >= 0: with S what the receiver still yields,
\* collect on a fresh take(n) is the first min(n, len(S)) elements of S, and
\* exactly n elements of an endless source
TakeNonNegative ==
  \A i \in Live(st) :
    (st.lay[i].op = "take" /\ Fresh(st, i)) =>
      LET S == Rest(st, i - 1)
          n == st.lay[i].arg
          c == collect(st, i) IN
      c.kind = "value" =>
        /\ c.val = SubSeq(S.val, 1, Min(n, Len(S.val)))
        /\ (src.cyclic /\ i = 2) => Len(c.val) = n

\* C3 (as claimed): take accepts every integer n, negative ones too, without
\* an error; collect(take(S, n)) is the first min(n, len(S)) elements of S for
\* n >= 0 (exactly n of an endless S) and the empty result for n <= 0.
C3_TakeAnyN ==
  /\ ret.op = "take" => ret.kind = "chain"
  /\ TakeNonNegative

ZipPairs(S, T) == [k \in 1..Min(Len(S), Len(T)) |-> <<S[k], T[k]>>]
ZipLongestPairs(S, T) ==
  [k \in 1..Max(Len(S), Len(T)) |->
     <<IF k <= Len(S) THEN S[k] ELSE None, IF k <= Len(T) THEN T[k] ELSE None>>]

\* C4: with S what the receiver still yields (finite) and T the other operand,
\* collect(zip) is the pairs (S[k], T[k]) for k up to min(len S, len T), and
\* collect(zip_longest) is max(len S, len T) pairs with None standing in past
\* the end of the shorter side.
C4_ZipShape ==
  \A i \in Live(st) :
    (st.lay[i].op \in {"zip", "zip_longest"} /\ Fresh(st, i) /\ Finite(st, i - 1)) =>
      LET S == Rest(st, i - 1).val
          T == st.lay[i].arg
          c == collect(st, i) IN
      /\ c.kind = "value"
      /\ st.lay[i].op = "zip" => c.val = ZipPairs(S, T)
      /\ st.lay[i].op = "zip_longest" => c.val = ZipLongestPairs(S, T)

\* a collect of a zip_longest whose receiver was the longer side: the last
\* pair carries the fill
C4_Witness ==
  /\ ret.op = "collect"
  /\ ret.kind = "value"
  /\ st.lay[ret.inst].op = "zip_longest"
  /\ Len(ret.val) > Len(st.lay[ret.inst].arg)
  /\ Len(st.lay[ret.inst].arg) > 0
  /\ ret.val[Len(ret.val)][2] = None

C6_TakeWhile ==
  \A i \in Live(st) :
    st.lay[i].op = "take_while" =>
      /\ Fresh(st, i) =>
           LET S == Rest(st, i - 1)
               c == collect(st, i)
               p == PrefixLen(S.val, st.lay[i].arg) IN
           c.kind = "value" =>
             /\ c.val = SubSeq(S.val, 1, p)
             /\ p < Len(S.val) =>
                  /\ c.st.lay[i].stop
                  /\ c.st.lay[i].cnt = p + 1
                  /\ S.kind = "value" =>
                       Rest(c.st, i - 1).val = SubSeq(S.val, p + 2, Len(S.val))
             /\ p = Len(S.val) => c.st.lay[i].cnt = p
      /\ st.lay[i].stop =>
           /\ pull(st, i).kind = "raise"
           /\ collect(st, i).val = <<>>
           /\ \A fn \in Preds : find(st, i, fn).val = None /\ ~find(st, i, fn).found
           /\ \A j \in i..Top(st) :
                /\ pull(st, j).st.lay[i].cnt = st.lay[i].cnt
                /\ pull(st, j).st.pos = st.pos
                /\ collect(st, j).st.lay[i].cnt = st.lay[i].cnt
                /\ collect(st, j).st.pos = st.pos

\* collect has returned a non-empty prefix of an endless source through a
\* take_while that stopped at a failing element
C6_Witness ==
  /\ ret.op = "collect"
  /\ ret.kind = "value"
  /\ ret.inst = 2
  /\ src.cyclic
  /\ st.lay[2].op = "take_while"
  /\ st.lay[2].stop
  /\ ret.val # <<>>
  /\ st.pos = Len(ret.val) + 1

\* index of the first element of q lying in fn (Len(q) + 1 if there is none)
FirstIn(q, fn) == PrefixLen(q, Scalars \ fn) + 1

\* C7: with R what the instance still yields (finite), find(pred) returns the
\* first element of R satisfying pred and leaves exactly the elements of R
\* after it, in order, for the next terminal operation; if no element of R
\* satisfies pred it returns None and leaves the instance drained.
C7_Find ==
  \A i \in Live(st) :
    (~st.lay[i].tup /\ Finite(st, i)) =>
      \A fn \in Preds :
        LET R == Rest(st, i).val
            k == FirstIn(R, fn)
            r == find(st, i, fn) IN
        /\ r.kind = "value"
        /\ k <= Len(R) =>
             /\ r.found
             /\ r.val = R[k]
             /\ Rest(r.st, i).val = SubSeq(R, k + 1, Len(R))
        /\ k > Len(R) =>
             /\ ~r.found
             /\ r.val = None
             /\ r.st.lay[i].done
             /\ r.st = Rest(st, i).st

\* find has returned a match that was not the first element pulled, and
\* elements remain after it
C7_Witness ==
  /\ ret.op = "find"
  /\ ret.found
  /\ ret.inst = ret.top
  /\ ~ret.drained
  /\ st.pos > 1
  /\ Rest(st, ret.inst).val # <<>>

\* C8 (as claimed): after every pull of a zip, as many elements have been
\* taken from the receiver as from other.
C8_ZipLockstep ==
  \A i \in Live(st) :
    st.lay[i].op = "zip" => st.lay[i].cnt = st.lay[i].opos

\* C8 (amended): after every pull of a zip the two counts are equal, except
\* that when other is the side that ran out the receiver has had exactly one
\* more element taken (it is dropped unpaired) and the zip has finished.
C8_ZipLockstepAmended ==
  \A i \in Live(st) :
    st.lay[i].op = "zip" =>
      \/ st.lay[i].cnt = st.lay[i].opos
      \/ /\ st.lay[i].cnt = st.lay[i].opos + 1
         /\ st.lay[i].opos = Len(st.lay[i].arg)
         /\ st.lay[i].done

\* a zip that paired an element and then dropped one of the receiver's
C8_Witness ==
  \E i \in Live(st) :
    /\ st.lay[i].op = "zip"
    /\ st.lay[i].opos > 0
    /\ st.lay[i].cnt = st.lay[i].opos + 1
    /\ ret.op \in Consuming

\* C9 (as claimed): what find and nth return for an element they found is
\* never the marker they return when they found nothing.
C9_AbsentUnambiguous ==
  (ret.op \in {"find", "nth"} /\ ret.found /\ ~st.lay[ret.inst].tup) => ret.val # None

\* C10 (as claimed): a direct pull or terminal operation on an instance that a
\* chainable method has already been called on raises; it returns no value.
C10_ReuseRaises ==
  (ret.op \in Consuming /\ ret.inst < ret.top) => ret.kind = "raise"

====
